---- MODULE Spec2Model ----
(***************************************************************************)
(* Model of avclass/update.py: the Update class (relation loader, relation *)
(* classifier, fixed-point updater, expansion finalizer).  The taxonomy,   *)
(* translation and expansion stores (avclass.common) are modelled at       *)
(* their interface.                                                        *)
(*                                                                         *)
(* Tags are names; a taxonomy path CAT:p1:..:name is the sequence          *)
(* <<CAT, p1, .., name>>; a tag absent from the taxonomy has the empty     *)
(* path.  Occurrence counts are kept as the loader keeps them: strings of  *)
(* digits (sequences of digits), because the fields of a split line are    *)
(* never converted.  Ratios are hundredths.                                *)
(***************************************************************************)
EXTENDS Integers, Sequences, FiniteSets, TLC

VARIABLES
    tax,      \* _out_taxonomy: tag -> path (<<>> when the tag is no entry)
    trans,    \* _out_translation: tag -> list of destinations
    exp,      \* _out_expansion: tag -> list of destinations
    src_map,  \* src_map: tag -> count string (<<>> when the tag has no entry)
    rel_set,  \* rel_set: the working set
    new_set,  \* run(): new_set of the current pass
    cnt,      \* run(): cnt of the current pass
    num_iter, \* run(): num_iter
    args,     \* the module-level name `args` read by process_relation: <<t>> or <<>>
    input,    \* read_relations(): lines of the file not yet read
    acc,      \* find_expansions(): acc
    todo,     \* find_expansions(): relations the first loop has not visited
    pc,       \* position in the program
    err,      \* the exception that ended the program, "none" otherwise
    call,     \* the last operation performed, with its arguments and result
    hist      \* history: initial stores, loaded set, passes, per-pass facts

vars == <<tax, trans, exp, src_map, rel_set, new_set, cnt, num_iter, args,
          input, acc, todo, pc, err, call, hist>>

-----------------------------------------------------------------------------
(* Bounds and program constants *)

\* largest number of relations of a loaded working set
MaxRels == 2

\* largest number of lines of a relation file
MaxLines == 2

\* largest number of destinations passed to add_expansion
MaxDst == 2

\* main(): default of -n (minimum joint count)
DefaultN == 20

\* main(): default of -t (minimum ratio), in hundredths
DefaultT == 94

Tags == {"a", "b", "c"}

\* the tags of the runs that are compared over the orders of popping: two
\* relations that share no tag name four tags
OrderTags == Tags \cup {"d"}

\* position of a tag in Python's string order (sorted())
TagRank ==
    [t \in OrderTags |-> CASE t = "a" -> 1 [] t = "b" -> 2 [] t = "c" -> 3
                            [] OTHER -> 4]

Cats == {"FAM", "CLASS", "BEH", "FILE"}

NoPath == <<>>
NoCnt == <<>>

\* the name `args` is not bound in the module's globals
Unbound == <<>>

\* count strings "5", "9", "10"
Counts == {<<5>>, <<9>>, <<1, 0>>}

Range(s) == {s[i] : i \in 1..Len(s)}

RECURSIVE Dedup(_)
\* a list without its repeated elements, first occurrences kept
Dedup(s) ==
    IF s = <<>> THEN <<>>
    ELSE LET r == Dedup(SubSeq(s, 1, Len(s) - 1))
         IN  IF s[Len(s)] \in Range(r) THEN r ELSE Append(r, s[Len(s)])

RECURSIVE Insert(_, _)
Insert(s, t) ==
    IF s = <<>> THEN <<t>>
    ELSE IF TagRank[t] <= TagRank[Head(s)] THEN <<t>> \o s
    ELSE <<Head(s)>> \o Insert(Tail(s), t)

RECURSIVE Sorted(_)
\* Python's sorted() on a list of tags
Sorted(s) == IF s = <<>> THEN <<>> ELSE Insert(Sorted(Tail(s)), Head(s))

RECURSIVE StrLess(_, _)
\* Python's < on two strings of digits: lexicographic
StrLess(x, y) ==
    IF y = <<>> THEN FALSE
    ELSE IF x = <<>> THEN TRUE
    ELSE IF Head(x) # Head(y) THEN Head(x) < Head(y)
    ELSE StrLess(Tail(x), Tail(y))

RECURSIVE StrToInt(_)
\* int() of a string of digits
StrToInt(x) ==
    IF x = <<>> THEN 0 ELSE 10 * StrToInt(SubSeq(x, 1, Len(x) - 1)) + x[Len(x)]

-----------------------------------------------------------------------------
(* Taxonomy (avclass.common) *)

\* Taxonomy.get_category
get_category(tx, t) == IF tx[t] = NoPath THEN "UNK" ELSE Head(tx[t])

\* Taxonomy.get_path
get_path(tx, t) == IF tx[t] = NoPath THEN <<"UNK", t>> ELSE tx[t]

\* the tags between the category and the name of t's path
prefix_l(tx, t) ==
    IF tx[t] = NoPath THEN {}
    ELSE {tx[t][i] : i \in 2..(Len(tx[t]) - 1)}

\* Taxonomy.overlaps: one tag is an ancestor of the other
overlaps(tx, t1, t2) == t1 \in prefix_l(tx, t2) \/ t2 \in prefix_l(tx, t1)

\* Taxonomy.add_tag(path): a tag has one path at a time
tax_add_tag(tx, path) ==
    LET name == path[Len(path)]
    IN  IF tx[name] # NoPath THEN tx ELSE [tx EXCEPT ![name] = path]

\* Taxonomy.remove_tag
tax_remove_tag(tx, t) == [tx EXCEPT ![t] = NoPath]

\* Taxonomy.remove_overlaps: drop every tag that is an ancestor of another
\* tag of the list
remove_overlaps(tx, l) ==
    LET d == Dedup(l)
    IN  SelectSeq(d, LAMBDA x : \A y \in Range(d) : x \notin prefix_l(tx, y))

\* Taxonomy.platform_tags: the tags below FILE:os
platform_tags(tx) ==
    {t \in Tags : Len(tx[t]) >= 3 /\ tx[t][1] = "FILE" /\ tx[t][2] = "os"}

(* Translation / Expansion (avclass.common) *)

\* Rules.get_dst
get_dst(rules, t) == rules[t]

\* Rules.add_rule(src, dst_l, overwrite=True)
add_rule(rules, src, dst_l) == [rules EXCEPT ![src] = Dedup(dst_l)]

-----------------------------------------------------------------------------
(* Update: predicates on relations *)

\* the three stores as one value
Stores(tx, tr, ex) == [tax |-> tx, trans |-> tr, exp |-> ex]

\* is_weak_rel with <= for <
is_weak_rel_strict(rel, n, t) ==
    StrToInt(rel.nalias_num) <= n \/ rel.talias_num <= t

\* Update.is_weak_rel
is_weak_rel(rel, n, t) ==
    StrToInt(rel.nalias_num) < n \/ rel.talias_num < t

\* Update.is_blacklisted_rel
is_blacklisted_rel(rel, blist) == rel.t1 \in blist \/ rel.t2 \in blist

\* is_known_rel without the test `t1_dst and t1_dst == t2_dst`
is_known_rel_no_alias(S, rel) ==
    LET t1 == rel.t1
        t2 == rel.t2
    IN  \/ overlaps(S.tax, t1, t2)
        \/ t2 \in Range(get_dst(S.exp, t1)) \/ t1 \in Range(get_dst(S.exp, t2))
        \/ t2 \in Range(get_dst(S.trans, t1))
        \/ t1 \in Range(get_dst(S.trans, t2))

\* Update.is_known_rel
is_known_rel(S, rel) ==
    LET t1 == rel.t1
        t2 == rel.t2
        e1 == get_dst(S.exp, t1)
        e2 == get_dst(S.exp, t2)
        t1_dst == Sorted(get_dst(S.trans, t1))
        t2_dst == Sorted(get_dst(S.trans, t2))
    IN  IF overlaps(S.tax, t1, t2) THEN TRUE
        ELSE IF t2 \in Range(e1) \/ t1 \in Range(e2) THEN TRUE
        ELSE IF t2 \in Range(t1_dst) \/ t1 \in Range(t2_dst) THEN TRUE
        ELSE IF t1_dst # <<>> /\ t1_dst = t2_dst THEN TRUE
        ELSE FALSE

\* the expansion test of families only
is_expansion_rel_fam_only(S, rel) ==
    LET c1 == get_category(S.tax, rel.t1)
        c2 == get_category(S.tax, rel.t2)
    IN  c1 = "FAM" /\ c2 # c1 /\ c2 # "UNK"

\* Update.is_expansion_rel
is_expansion_rel(S, rel) ==
    LET c1 == get_category(S.tax, rel.t1)
        c2 == get_category(S.tax, rel.t2)
    IN  \/ (c1 = "FAM" /\ c2 # c1 /\ c2 # "UNK")
        \/ (c1 = "CLASS" /\ (c2 = "FILE" \/ c2 = "BEH"))
        \/ (c1 = "UNK" /\ (c2 = "BEH" \/ c2 = "CLASS"))

-----------------------------------------------------------------------------
(* Update: mutations.  Each yields the stores after the call and the      *)
(* exception raised ("none" when the call returns).                       *)

Ok(S) == [tax |-> S.tax, trans |-> S.trans, exp |-> S.exp, err |-> "none"]
Raise(S, e) == [tax |-> S.tax, trans |-> S.trans, exp |-> S.exp, err |-> e]

\* add_tag without the test of the translation rules
add_tag_unchecked(S, name, path) ==
    Ok([S EXCEPT !.tax = tax_add_tag(S.tax, path)])

\* Update.add_tag
add_tag(S, name, path) ==
    IF get_dst(S.trans, name) = <<>>
    THEN Ok([S EXCEPT !.tax = tax_add_tag(S.tax, path)])
    ELSE Ok(S)

\* Update.add_expansion
add_expansion(S, src, dst_l) ==
    LET tdst == get_dst(S.trans, src)
        new_src == IF tdst # <<>> THEN tdst[1] ELSE src
        dst == get_dst(S.exp, src)
    IN  IF dst # <<>>
        THEN Ok([S EXCEPT !.exp = add_rule(S.exp, new_src,
                                       remove_overlaps(S.tax, dst \o dst_l))])
        ELSE Ok([S EXCEPT !.exp = add_rule(S.exp, new_src, dst_l)])

RECURSIVE most_popular(_, _, _, _)
\* Update.add_alias, the loop over tr_dst: the target after the loop, or the
\* TypeError of comparing the int 0 with a string
most_popular(tr_dst, target, cnt_max, sm) ==
    IF tr_dst = <<>> THEN [target |-> target, err |-> "none"]
    ELSE LET e == Head(tr_dst)
         IN  IF sm[e] = NoCnt
             THEN [target |-> target, err |-> "TypeError"]
             ELSE most_popular(Tail(tr_dst),
                               IF StrLess(cnt_max, sm[e]) THEN e ELSE target,
                               cnt_max, sm)

\* Update.add_alias
add_alias(S, src, dst, dst_prefix, sm) ==
    LET tr_src == get_dst(S.trans, src)
        pick == IF tr_src = <<>> THEN [target |-> dst, err |-> "none"]
                ELSE IF sm[dst] = NoCnt THEN [target |-> dst, err |-> "KeyError"]
                ELSE most_popular(tr_src, dst, sm[dst], sm)
        tr_dst == get_dst(S.trans, dst)
        target_l == IF tr_dst # <<>> THEN tr_dst ELSE <<pick.target>>
        tax1 == IF tr_dst # <<>> THEN S.tax
                ELSE tax_add_tag(S.tax, Append(dst_prefix, dst))
        tax2 == tax_remove_tag(tax1, src)
    IN  IF pick.err # "none" THEN Raise(S, pick.err)
        ELSE Ok([tax |-> tax2, trans |-> add_rule(S.trans, src, target_l),
                 exp |-> S.exp])

\* the whole path instead of its prefix
path_prefix_whole(p) == p

\* p[0:p.rfind(':')]
path_prefix(p) == SubSeq(p, 1, Len(p) - 1)

\* a call's outcome with the value process_relation returns
Result(out, r) == [tax |-> out.tax, trans |-> out.trans, exp |-> out.exp,
                   err |-> out.err,
                   result |-> IF out.err = "none" THEN r ELSE 0]

\* Update.process_relation, the branch `float(rel.tinv_alias_num) >= args.t`
process_strong(S, rel, sm) ==
    LET t1 == rel.t1
        t2 == rel.t2
        p1 == get_path(S.tax, t1)
        c1 == get_category(S.tax, t1)
        p2 == get_path(S.tax, t2)
        c2 == get_category(S.tax, t2)
    IN  IF c1 # "UNK" /\ c2 = "UNK"
        THEN Result(add_alias(S, t1, t2, path_prefix(p1), sm), 1)
        ELSE IF c1 = "UNK" /\ c2 # "UNK"
        THEN Result(add_alias(S, t1, t2, path_prefix(p2), sm), 1)
        ELSE IF c1 = "UNK" /\ c2 = "UNK"
        THEN Result(add_alias(S, t1, t2, <<"FAM">>, sm), 1)
        ELSE IF c1 = c2
        THEN Result(add_alias(S, t1, t2, path_prefix(p1), sm), 1)
        ELSE Result(Ok(S), -1)

\* Update.process_relation, the elif chain
process_weak(S, rel, sm) ==
    LET t1 == rel.t1
        t2 == rel.t2
        p1 == get_path(S.tax, t1)
        c1 == get_category(S.tax, t1)
        p2 == get_path(S.tax, t2)
        c2 == get_category(S.tax, t2)
    IN  IF c1 = "UNK" /\ c2 = "FAM"
        THEN Result(add_alias(S, t1, t2, <<"FAM">>, sm), 1)
        ELSE IF c1 = "UNK" /\ c2 = "CLASS"
        THEN Result(add_tag(S, t1, <<"FAM", t1>>), 0)
        ELSE IF c1 = "UNK" /\ c2 = "BEH"
        THEN Result(add_tag(S, t1, <<"FAM", t1>>), 0)
        ELSE IF c1 = "UNK" /\ c2 = "FILE"
        THEN Result(add_tag(S, t1, Append(p2, t1)), 1)
        ELSE IF c1 = "UNK" /\ c2 = "UNK"
        THEN Result(add_alias(S, t1, t2, <<"FAM">>, sm), 1)
        ELSE IF c1 = "FAM" /\ c2 = "UNK"
        THEN Result(add_alias(S, t1, t2, <<"FAM">>, sm), 1)
        ELSE IF c1 = "FILE" /\ c2 = "UNK"
        THEN Result(add_alias(S, t1, t2, path_prefix(p1), sm), 1)
        ELSE IF c1 = "FAM" /\ c2 = "FAM"
        THEN Result(add_alias(S, t1, t2, path_prefix(p2), sm), 1)
        ELSE Result(Ok(S), 0)

\* the value of `args.t`: the threshold when the name is bound
args_t(a) == a[1]

\* Update.process_relation
process_relation(S, rel, a, sm) ==
    IF a = Unbound THEN Result(Raise(S, "NameError"), 0)
    ELSE IF rel.tinv_alias_num >= args_t(a) THEN process_strong(S, rel, sm)
    ELSE process_weak(S, rel, sm)

-----------------------------------------------------------------------------
(* Relations and initial states *)

\* Relation(t1, t2, t1_num, t2_num, nalias_num, talias_num, tinv_alias_num)
Relation(t1, t2, n1, n2, na, ta, ti) ==
    [t1 |-> t1, t2 |-> t2, t1_num |-> n1, t2_num |-> n2, nalias_num |-> na,
     talias_num |-> ta, tinv_alias_num |-> ti]

NoRel == Relation("-", "-", NoCnt, NoCnt, NoCnt, 0, 0)

\* the weak and the strong value of a ratio, around the threshold
Ratios == {DefaultT - 1, DefaultT}

\* the joint counts "19" and "20", around the threshold
JointCounts == {<<1, 9>>, <<2, 0>>}

EmptyRules == [t \in Tags |-> <<>>]

FlatPath(c, t) == IF c = "UNK" THEN NoPath ELSE <<c, t>>

CatRank(c) ==
    CASE c = "UNK" -> 0 [] c = "FAM" -> 1 [] c = "CLASS" -> 2
      [] c = "BEH" -> 3 [] OTHER -> 4

\* the initial taxonomies: every tag unknown or a top-level entry of a
\* category (one taxonomy for each assignment, up to renaming the tags)
InitTaxonomies ==
    {[t \in Tags |-> FlatPath(f[t], t)] :
        f \in {g \in [Tags -> Cats \cup {"UNK"}] :
                  /\ CatRank(g["a"]) <= CatRank(g["b"])
                  /\ CatRank(g["b"]) <= CatRank(g["c"])}}

\* the initial translation tables: no rule, or one rule whose source is no
\* taxonomy entry
InitTranslations(tx) ==
    {EmptyRules} \cup
    {[EmptyRules EXCEPT ![r.s] = <<r.d>>] :
        r \in {q \in [s : Tags, d : Tags] : q.s # q.d /\ tx[q.s] = NoPath}}

\* the initial expansion tables: no rule, or one rule from a family or class
\* to a tag of a category it can imply
InitExpansions(tx) ==
    {EmptyRules} \cup
    {[EmptyRules EXCEPT ![r.t1] = <<r.t2>>] :
        r \in {q \in [t1 : Tags, t2 : Tags] :
                  /\ q.t1 # q.t2
                  /\ tx[q.t1] # NoPath
                  /\ is_expansion_rel(Stores(tx, EmptyRules, EmptyRules), q)}}

\* the relations a loaded working set can hold: the loader keeps a relation
\* only with a strong joint count and a strong talias_num
RunRels(cntOf) ==
    {r \in {Relation(t1, t2, cntOf[t1], cntOf[t2], <<2, 0>>, DefaultT, ti) :
        t1 \in Tags, t2 \in Tags, ti \in Ratios} :
        r.t1 # r.t2}

RelTags(R) == {r.t1 : r \in R} \cup {r.t2 : r \in R}

SubsetsUpTo(U, k) == {R \in SUBSET U : Cardinality(R) <= k}

NoCall == [op |-> "none", rel |-> NoRel, result |-> 0, known |-> FALSE,
           pre |-> Stores(EmptyRules, EmptyRules, EmptyRules), precnt |-> 0,
           prerels |-> {}]

Hist0(tx, tr, ex, R) ==
    [tax0 |-> tx, trans0 |-> tr, exp0 |-> ex, rels0 |-> R, lines |-> <<>>,
     passes |-> 0, chg_tax |-> FALSE, chg_rules |-> FALSE, nonzero |-> 0,
     contra |-> {}, start |-> {}]

\* The state after Update.__init__, before run().  The stores satisfy the
\* invariants of the data model (no translation source is a taxonomy entry,
\* no rule has overlapping destinations).  Every token has one occurrence
\* count, the same in every relation that names it.  process_relation looks
\* `args` up in the module's globals when it is called: main() binds the name
\* only as a local, so it is unbound in the program as it stands; it is bound
\* (to the parsed arguments, whose t was passed to the constructor) when the
\* embedding program has bound it at module level.
Init ==
    \E tx \in InitTaxonomies :
    \E kb \in ({[tr |-> tr, ex |-> EmptyRules] : tr \in InitTranslations(tx)}
               \cup {[tr |-> EmptyRules, ex |-> ex] : ex \in InitExpansions(tx)}) :
    \E k \in Counts :
    \E a \in {Unbound, <<DefaultT>>} :
        LET dsts == UNION {Range(kb.tr[t]) : t \in Tags}
            cntOf == [t \in Tags |-> IF t \in dsts THEN k ELSE <<5>>]
        IN  /\ (dsts = {} => k = <<5>>)
            /\ \E R \in SubsetsUpTo(RunRels(cntOf), MaxRels) :
                /\ tax = tx
                /\ trans = kb.tr
                /\ exp = kb.ex
                /\ src_map = [t \in Tags |->
                                 IF t \in RelTags(R) THEN cntOf[t] ELSE NoCnt]
                /\ rel_set = R
                /\ new_set = {}
                /\ cnt = 0
                /\ num_iter = 0
                /\ args = a
                /\ input = <<>>
                /\ acc = {}
                /\ todo = {}
                /\ pc = "run"
                /\ err = "none"
                /\ call = NoCall
                /\ hist = Hist0(tx, kb.tr, kb.ex, R)

-----------------------------------------------------------------------------
(* Update.run *)

Cur == Stores(tax, trans, exp)

\* run(): the test of the outer `while self.rel_set`, and the start of a pass
\* or of find_expansions()
RunLoop ==
    /\ pc = "run"
    /\ IF rel_set # {}
       THEN /\ cnt' = 0
            /\ new_set' = {}
            /\ pc' = "pass"
            /\ hist' = [hist EXCEPT !.passes = @ + 1, !.chg_tax = FALSE,
                                     !.chg_rules = FALSE, !.nonzero = 0,
                                     !.start = rel_set]
            /\ UNCHANGED <<acc, todo>>
       ELSE /\ pc' = "find"
            /\ acc' = {}
            /\ todo' = rel_set
            /\ UNCHANGED <<cnt, new_set, hist>>
    /\ call' = [call EXCEPT !.op = "loop"]
    /\ UNCHANGED <<tax, trans, exp, src_map, rel_set, num_iter, args, input,
                   err>>

\* the relation is bidirectionally strong for the threshold t of the Update
\* instance and its tags have different categories, neither of them UNK
contradiction(S, rel, t) ==
    LET c1 == get_category(S.tax, rel.t1)
        c2 == get_category(S.tax, rel.t2)
    IN  /\ rel.talias_num >= t
        /\ rel.tinv_alias_num >= t
        /\ c1 # c2
        /\ c1 # "UNK"
        /\ c2 # "UNK"

\* `if result > 0:`
is_true_positive(result) == result > 0

\* run(): `if result:` on the value process_relation returned
is_true(result) == result # 0

\* new_set.add(rel) for every relation
next_new_set_all(ns, rel, result) == ns \cup {rel}

\* run(): `if result: cnt += 1 else: new_set.add(rel)`, the new_set after it
next_new_set(ns, rel, result) ==
    IF is_true(result) THEN ns ELSE ns \cup {rel}

\* a pass that keeps the known relations for the next pass
Classify_requeue_known ==
    /\ pc = "pass"
    /\ rel_set # {}
    /\ \E rel \in rel_set :
        LET known == is_known_rel(Cur, rel)
            out == process_relation(Cur, rel, args, src_map)
        IN  /\ rel_set' = rel_set \ {rel}
            /\ IF known
               THEN /\ UNCHANGED <<tax, trans, exp, cnt, pc, err>>
                    /\ new_set' = new_set \cup {rel}
                    /\ call' = [op |-> "classify", rel |-> rel, result |-> 0,
                                known |-> TRUE, pre |-> Cur, precnt |-> cnt,
                                prerels |-> rel_set]
                    /\ UNCHANGED hist
               ELSE /\ tax' = out.tax
                    /\ trans' = out.trans
                    /\ exp' = out.exp
                    /\ err' = out.err
                    /\ pc' = IF out.err = "none" THEN "pass" ELSE "error"
                    /\ cnt' = IF out.err = "none" /\ is_true(out.result)
                              THEN cnt + 1 ELSE cnt
                    /\ new_set' = IF out.err = "none"
                                  THEN next_new_set(new_set, rel, out.result)
                                  ELSE new_set
                    /\ call' = [op |-> "classify", rel |-> rel,
                                result |-> out.result, known |-> FALSE,
                                pre |-> Cur, precnt |-> cnt,
                                prerels |-> rel_set]
                    /\ hist' = [hist EXCEPT
                          !.chg_tax = @ \/ out.tax # tax,
                          !.chg_rules = @ \/ out.trans # trans \/ out.exp # exp,
                          !.nonzero = IF out.err = "none" /\ out.result # 0
                                      THEN @ + 1 ELSE @,
                          !.contra = IF contradiction(Cur, rel, DefaultT)
                                     THEN @ \cup {rel} ELSE @]
    /\ UNCHANGED <<src_map, num_iter, args, input, acc, todo>>

\* run(): one iteration of the inner `while self.rel_set`
Classify ==
    /\ pc = "pass"
    /\ rel_set # {}
    /\ \E rel \in rel_set :
        LET known == is_known_rel(Cur, rel)
            out == process_relation(Cur, rel, args, src_map)
        IN  /\ rel_set' = rel_set \ {rel}
            /\ IF known
               THEN /\ UNCHANGED <<tax, trans, exp, cnt, new_set, pc, err>>
                    /\ call' = [op |-> "classify", rel |-> rel, result |-> 0,
                                known |-> TRUE, pre |-> Cur, precnt |-> cnt,
                                prerels |-> rel_set]
                    /\ UNCHANGED hist
               ELSE /\ tax' = out.tax
                    /\ trans' = out.trans
                    /\ exp' = out.exp
                    /\ err' = out.err
                    /\ pc' = IF out.err = "none" THEN "pass" ELSE "error"
                    /\ cnt' = IF out.err = "none" /\ is_true(out.result)
                              THEN cnt + 1 ELSE cnt
                    /\ new_set' = IF out.err = "none"
                                  THEN next_new_set(new_set, rel, out.result)
                                  ELSE new_set
                    /\ call' = [op |-> "classify", rel |-> rel,
                                result |-> out.result, known |-> FALSE,
                                pre |-> Cur, precnt |-> cnt,
                                prerels |-> rel_set]
                    /\ hist' = [hist EXCEPT
                          !.chg_tax = @ \/ out.tax # tax,
                          !.chg_rules = @ \/ out.trans # trans \/ out.exp # exp,
                          !.nonzero = IF out.err = "none" /\ out.result # 0
                                      THEN @ + 1 ELSE @,
                          !.contra = IF contradiction(Cur, rel, DefaultT)
                                     THEN @ \cup {rel} ELSE @]
    /\ UNCHANGED <<src_map, num_iter, args, input, acc, todo>>

\* a pass loop that goes on while relations remain
PassEnd_until_empty ==
    /\ pc = "pass"
    /\ rel_set = {}
    /\ rel_set' = new_set
    /\ IF new_set = {}
       THEN /\ pc' = "find"
            /\ acc' = {}
            /\ todo' = new_set
            /\ UNCHANGED num_iter
       ELSE /\ num_iter' = num_iter + 1
            /\ pc' = "run"
            /\ UNCHANGED <<acc, todo>>
    /\ call' = [call EXCEPT !.op = "passend"]
    /\ UNCHANGED <<tax, trans, exp, src_map, new_set, cnt, args, input, err,
                   hist>>

\* a pass loop of one pass
PassEnd_single_pass ==
    /\ pc = "pass"
    /\ rel_set = {}
    /\ rel_set' = new_set
    /\ pc' = "find"
    /\ acc' = {}
    /\ todo' = new_set
    /\ call' = [call EXCEPT !.op = "passend"]
    /\ UNCHANGED <<tax, trans, exp, src_map, new_set, cnt, num_iter, args,
                   input, err, hist>>

\* run(): the end of a pass
PassEnd ==
    /\ pc = "pass"
    /\ rel_set = {}
    /\ rel_set' = new_set
    /\ IF cnt = 0
       THEN /\ pc' = "find"
            /\ acc' = {}
            /\ todo' = new_set
            /\ UNCHANGED num_iter
       ELSE /\ num_iter' = num_iter + 1
            /\ pc' = "run"
            /\ UNCHANGED <<acc, todo>>
    /\ call' = [call EXCEPT !.op = "passend"]
    /\ UNCHANGED <<tax, trans, exp, src_map, new_set, cnt, args, input, err,
                   hist>>

\* find_expansions() without the test `if dst: continue`
Expand_aliases_too ==
    /\ pc = "find"
    /\ todo # {}
    /\ \E rel \in todo :
        LET hit == is_expansion_rel(Cur, rel)
            out == add_expansion(Cur, rel.t1, <<rel.t2>>)
        IN  /\ todo' = todo \ {rel}
            /\ exp' = IF hit THEN out.exp ELSE exp
            /\ acc' = IF hit THEN acc \cup {rel} ELSE acc
            /\ call' = [op |-> "expand", rel |-> rel,
                        result |-> IF hit THEN 1 ELSE 0, known |-> FALSE,
                        pre |-> Cur, precnt |-> cnt, prerels |-> rel_set]
    /\ UNCHANGED <<tax, trans, src_map, rel_set, new_set, cnt, num_iter, args,
                   input, pc, err, hist>>

\* find_expansions(): one iteration of `for rel in self.rel_set`
Expand ==
    /\ pc = "find"
    /\ todo # {}
    /\ \E rel \in todo :
        LET alias == get_dst(trans, rel.t1) # <<>>
            hit == ~alias /\ is_expansion_rel(Cur, rel)
            out == add_expansion(Cur, rel.t1, <<rel.t2>>)
        IN  /\ todo' = todo \ {rel}
            /\ exp' = IF hit THEN out.exp ELSE exp
            /\ acc' = IF hit THEN acc \cup {rel} ELSE acc
            /\ call' = [op |-> "expand", rel |-> rel,
                        result |-> IF hit THEN 1 ELSE 0, known |-> FALSE,
                        pre |-> Cur, precnt |-> cnt, prerels |-> rel_set]
    /\ UNCHANGED <<tax, trans, src_map, rel_set, new_set, cnt, num_iter, args,
                   input, pc, err, hist>>

\* find_expansions() without the removal of the relations it resolved
FindEnd_keep_all ==
    /\ pc = "find"
    /\ todo = {}
    /\ pc' = "done"
    /\ call' = [call EXCEPT !.op = "return"]
    /\ UNCHANGED <<tax, trans, exp, src_map, rel_set, new_set, cnt, num_iter,
                   args, input, acc, todo, err, hist>>

\* find_expansions(): `for rel in acc: self.rel_set.remove(rel)`, and the
\* return of run()
FindEnd ==
    /\ pc = "find"
    /\ todo = {}
    /\ rel_set' = rel_set \ acc
    /\ pc' = "done"
    /\ call' = [call EXCEPT !.op = "return"]
    /\ UNCHANGED <<tax, trans, exp, src_map, new_set, cnt, num_iter, args,
                   input, acc, todo, err, hist>>

Next == RunLoop \/ Classify \/ PassEnd \/ Expand \/ FindEnd

Spec == Init /\ [][Next]_vars

TypeOK ==
    /\ pc \in {"run", "pass", "find", "done", "error"}
    /\ err \in {"none", "NameError", "KeyError", "TypeError"}
    /\ cnt \in 0..(MaxRels + 1)

-----------------------------------------------------------------------------
(* Properties of run() *)

\* the relation that the last step classified, and its tags
LastT1 == call.rel.t1
LastT2 == call.rel.t2

\* the last step called process_relation and the call returned
Processed == call.op = "classify" /\ ~call.known /\ err = "none"

\* C1: run() terminates: from every loaded working set and every initial
\* state of the stores, in every order of popping, the pass loop exits and
\* find_expansions() completes.  Every pass and find_expansions() shrink a
\* finite set, so run() always stops; the claim is that when it has stopped
\* (no step is left), it has returned from find_expansions().
C1_RunCompletes == ~ENABLED Next => pc = "done"

\* the tags of the loaded relations whose category is UNK in the initial
\* taxonomy
InitUnkTags == {t \in RelTags(hist.rels0) : hist.tax0[t] = NoPath}

\* C2 (as claimed): the number of passes of run() never exceeds the number of
\* distinct tags of the loaded relations that are UNK in the initial taxonomy.
C2_PassesAtMostUnkTags == hist.passes <= Cardinality(InitUnkTags)

\* C2 (amended): the number of passes of run() never exceeds the number of
\* relations of the loaded working set.
C2_PassesAtMostRelations == hist.passes <= Cardinality(hist.rels0)

\* run() returned after two passes over relations without any UNK tag
C2_Witness == pc = "done" /\ hist.passes = 2 /\ InitUnkTags = {}

\* C3: no tag is at once a taxonomy entry and the source of a translation
\* rule, after every step of run() (the initial stores have no such tag).
C3_NoTagIsEntryAndSource ==
    \A t \in Tags : ~(tax[t] # NoPath /\ trans[t] # <<>>)

\* a taxonomy entry was made an alias
C3_Witness ==
    /\ Processed
    /\ call.pre.tax[LastT1] # NoPath
    /\ trans[LastT1] # <<>>

\* the case of C4: t1 is FAM, t2 is UNK, both ratios reach t, neither tag has
\* a translation rule, and the relation was classified
C4_Case ==
    /\ Processed
    /\ get_category(call.pre.tax, LastT1) = "FAM"
    /\ get_category(call.pre.tax, LastT2) = "UNK"
    /\ call.rel.talias_num >= DefaultT
    /\ call.rel.tinv_alias_num >= DefaultT
    /\ call.pre.trans[LastT1] = <<>>
    /\ call.pre.trans[LastT2] = <<>>

C5_ContradictionDropped ==
    /\ (call.op = "classify" /\ ~call.known
           /\ contradiction(call.pre, call.rel, DefaultT))
          => /\ Cur = call.pre
             /\ call.rel \notin (rel_set \cup new_set)
    /\ \A r \in hist.contra : r \notin (rel_set \cup new_set \cup todo)

\* run() returned after a second pass that followed a contradiction
C5_Witness == pc = "done" /\ hist.contra # {} /\ hist.passes >= 2

\* the known test as the claim states it
KnownRel(S, rel) ==
    \/ overlaps(S.tax, rel.t1, rel.t2)
    \/ rel.t2 \in Range(S.exp[rel.t1])
    \/ rel.t1 \in Range(S.exp[rel.t2])
    \/ rel.t2 \in Range(S.trans[rel.t1])
    \/ rel.t1 \in Range(S.trans[rel.t2])
    \/ (Range(S.trans[rel.t1]) # {}
        /\ Range(S.trans[rel.t1]) = Range(S.trans[rel.t2]))

\* C7: a relation that is known under the current stores is removed from the
\* working set with the three stores unchanged and the counter of the pass
\* unchanged, before the decision table is consulted (so no step of the table
\* runs, and none of its errors occurs).
C7_KnownDiscarded ==
    (call.op = "classify" /\ KnownRel(call.pre, call.rel))
        => /\ call.known
           /\ Cur = call.pre
           /\ cnt = call.precnt
           /\ err = "none"
           /\ call.rel \notin (rel_set \cup new_set)

\* a relation between two aliases of one destination was discarded as known
C7_Witness ==
    /\ call.op = "classify"
    /\ call.known
    /\ call.pre.trans[LastT1] # <<>>
    /\ call.pre.trans[LastT1] = call.pre.trans[LastT2]

\* C9: classifying a relation of the working set never ends in an error
\* state: the threshold is read, the count of the alias destination is found
\* and the counts compared are of one kind.
C9_NoErrorState == err = "none"

-----------------------------------------------------------------------------
(* Update.__init__ and Update.read_relations *)

\* a line that starts with '#'
CommentLine == Relation("#", "#", NoCnt, NoCnt, NoCnt, 0, 0)

\* the lines of a relation file: comments, and relations around both
\* thresholds in every field the loader and the classifier read
LoadLines ==
    {CommentLine} \cup
    {Relation(p[1], p[2], n1, <<9>>, na, ta, ti) :
        p \in {<<"a", "b">>, <<"b", "c">>, <<"c", "a">>},
        n1 \in {<<5>>, <<1, 0>>}, na \in JointCounts, ta \in Ratios,
        ti \in Ratios}

\* taxonomies at load time: c is a platform tag (FILE:os:c), or c is a
\* descendant of b (so that the relation of b and c is known)
LoadTaxonomies ==
    {[t \in Tags |-> CASE t = "a" -> NoPath
                       [] t = "b" -> <<"FAM", "b">>
                       [] OTHER -> <<"FILE", "os", "c">>],
     [t \in Tags |-> CASE t = "a" -> NoPath
                       [] t = "b" -> <<"FAM", "b">>
                       [] OTHER -> <<"FAM", "b", "c">>]}

SeqsUpTo(U, k) == UNION {[1..n -> U] : n \in 0..k}

\* Update.__init__ at the call of read_relations
InitLoad ==
    \E tx \in LoadTaxonomies :
    \E lines \in SeqsUpTo(LoadLines, MaxLines) :
        /\ tax = tx
        /\ trans = EmptyRules
        /\ exp = EmptyRules
        /\ src_map = [t \in Tags |-> NoCnt]
        /\ rel_set = {}
        /\ new_set = {}
        /\ cnt = 0
        /\ num_iter = 0
        /\ args = Unbound
        /\ input = lines
        /\ acc = {}
        /\ todo = {}
        /\ pc = "load"
        /\ err = "none"
        /\ call = NoCall
        /\ hist = [Hist0(tx, EmptyRules, EmptyRules, {}) EXCEPT !.lines = lines]

\* read_relations(): one iteration of `for line in fd`
ReadLine ==
    /\ pc = "load"
    /\ input # <<>>
    /\ LET rel == Head(input)
           keep == /\ rel # CommentLine
                   /\ ~is_weak_rel(rel, DefaultN, DefaultT)
                   /\ ~is_blacklisted_rel(rel, platform_tags(tax))
       IN  /\ input' = Tail(input)
           /\ rel_set' = IF keep THEN rel_set \cup {rel} ELSE rel_set
           /\ src_map' = IF keep
                         THEN [[src_map EXCEPT ![rel.t1] = rel.t1_num]
                                        EXCEPT ![rel.t2] = rel.t2_num]
                         ELSE src_map
           /\ call' = [NoCall EXCEPT !.op = "readline", !.rel = rel,
                                     !.known = keep]
    /\ UNCHANGED <<tax, trans, exp, new_set, cnt, num_iter, args, acc, todo,
                   pc, err, hist>>

\* read_relations() returns and __init__ completes
LoadEnd ==
    /\ pc = "load"
    /\ input = <<>>
    /\ pc' = "run"
    /\ hist' = [hist EXCEPT !.rels0 = rel_set]
    /\ call' = [call EXCEPT !.op = "loaded"]
    /\ UNCHANGED <<tax, trans, exp, src_map, rel_set, new_set, cnt, num_iter,
                   args, input, acc, todo, err>>

NextLoad == ReadLine \/ LoadEnd

SpecLoad == InitLoad /\ [][NextLoad]_vars

-----------------------------------------------------------------------------
(* Update.add_expansion as an operation of its own *)

\* taxonomies with and without a descendant: c below b, or every tag flat
ExpTaxonomies ==
    {[t \in Tags |-> CASE t = "a" -> FlatPath(ca, "a")
                       [] t = "b" -> <<cb, "b">>
                       [] OTHER -> IF nested THEN <<cb, "b", "c">>
                                   ELSE <<cb, "c">>] :
        ca \in {"UNK", "FAM"}, cb \in {"CLASS", "FILE"},
        nested \in BOOLEAN}

NonOverlapping(tx, l) ==
    \A x \in Range(l) : \A y \in Range(l) : x # y => ~overlaps(tx, x, y)

NoRepeat(l) == Cardinality(Range(l)) = Len(l)

\* the destination lists of a call or of a rule
DstLists == {l \in SeqsUpTo(Tags, MaxDst) : l # <<>> /\ NoRepeat(l)}

\* the expansion tables: no rule, or one rule without overlaps
ExpTables(tx) ==
    {EmptyRules} \cup
    {[EmptyRules EXCEPT ![s] = l] :
        s \in Tags,
        l \in {m \in DstLists : NonOverlapping(tx, m)}}

\* a caller about to call add_expansion(src, dst_l)
InitExp ==
    \E tx \in ExpTaxonomies :
    \E tr \in InitTranslations(tx) :
    \E ex \in ExpTables(tx) :
    \E s \in Tags :
    \E l \in DstLists :
        /\ tax = tx
        /\ trans = tr
        /\ exp = ex
        /\ src_map = [t \in Tags |-> NoCnt]
        /\ rel_set = {}
        /\ new_set = {}
        /\ cnt = 0
        /\ num_iter = 0
        /\ args = Unbound
        /\ input = <<>>
        /\ acc = {}
        /\ todo = {}
        /\ pc = "call"
        /\ err = "none"
        /\ call = [op |-> "pending", src |-> s, dst_l |-> l,
                   pre |-> Stores(tx, tr, ex)]
        /\ hist = Hist0(tx, tr, ex, {})

\* the source under which add_expansion(src, ..) writes its rule
written_src(S, src) ==
    IF get_dst(S.trans, src) # <<>> THEN get_dst(S.trans, src)[1] ELSE src

\* the call add_expansion(src, dst_l)
CallAddExpansion ==
    /\ pc = "call"
    /\ LET out == add_expansion(Cur, call.src, call.dst_l)
       IN  /\ exp' = out.exp
           /\ call' = [call EXCEPT !.op = "add_expansion"]
    /\ pc' = "ret"
    /\ UNCHANGED <<tax, trans, src_map, rel_set, new_set, cnt, num_iter, args,
                   input, acc, todo, err, hist>>

NextExp == CallAddExpansion

SpecExp == InitExp /\ [][NextExp]_vars

\* C6: the working set the loader produces is exactly the set of the
\* relations of the file with joint count >= n, talias_num >= t and neither
\* tag a platform tag: nothing else is dropped (not a known relation, not a
\* relation with a low tinv_alias_num) and nothing else is kept.
C6_LoadedSet ==
    pc = "run" =>
        rel_set = {r \in Range(hist.lines) \ {CommentLine} :
                      /\ StrToInt(r.nalias_num) >= DefaultN
                      /\ r.talias_num >= DefaultT
                      /\ r.t1 \notin platform_tags(hist.tax0)
                      /\ r.t2 \notin platform_tags(hist.tax0)}

\* the load kept a known relation that sits exactly on both thresholds and
\* has a low tinv_alias_num, and dropped another line
C6_Witness ==
    /\ pc = "run"
    /\ \E r \in rel_set :
          /\ is_known_rel(Cur, r)
          /\ StrToInt(r.nalias_num) = DefaultN
          /\ r.talias_num = DefaultT
          /\ r.tinv_alias_num < DefaultT
    /\ \E q \in Range(hist.lines) : q # CommentLine /\ q \notin rel_set

\* C8: after any call add_expansion(src, dst_l), no two distinct
\* destinations of the rule of the source that was written overlap in the
\* taxonomy, whether or not the source had a rule before.
C8_NoOverlapAfterAddExpansion ==
    call.op = "add_expansion"
        => NonOverlapping(tax, exp[written_src(call.pre, call.src)])

-----------------------------------------------------------------------------
(* Further properties of run() *)

\* C11: whenever process_relation returns 1 ("mutation applied"), the call
\* changed a store: the stores after the call differ from the stores before
\* it (in particular in the branch UNK -> FILE when t1 is a translation
\* source).
C11_ResultOneChangesStore ==
    (Processed /\ call.result = 1) => Cur # call.pre


\* the classification of a relation under the stores S is Known or Deferred:
\* the known test holds, or the decision table returns 0
KnownOrDeferred(S, rel) ==
    \/ is_known_rel(S, rel)
    \/ LET out == process_relation(S, rel, args, src_map)
       IN  out.err = "none" /\ out.result = 0

\* C12: when the pass loop of run() has exited, the working set is at a
\* fixed point: every relation still in the working set is Known or Deferred
\* under the stores as they are then, never a counted mutation (although the
\* last pass may have changed the taxonomy).
C12_FixedPointAtLoopExit ==
    pc = "find" => \A rel \in rel_set : KnownOrDeferred(Cur, rel)

\* the pass loop exited after a pass that changed the taxonomy, and a
\* relation that is not known is left in the working set
C12_Witness ==
    /\ call.op = "passend"
    /\ pc = "find"
    /\ hist.chg_tax
    /\ \E rel \in rel_set : ~is_known_rel(Cur, rel)


\* the expansion condition as the claim states it, on the categories of the
\* tags of rel in the taxonomy tx
ExpansionCondition(tx, rel) ==
    LET c1 == get_category(tx, rel.t1)
        c2 == get_category(tx, rel.t2)
    IN  \/ c1 = "FAM" /\ c2 \in {"CLASS", "BEH", "FILE"}
        \/ c1 = "CLASS" /\ c2 \in {"FILE", "BEH"}
        \/ c1 = "UNK" /\ c2 \in {"BEH", "CLASS"}

\* rel is resolved by find_expansions(): its t1 is not a translation source
\* and its categories match the expansion condition
Resolvable(S, rel) ==
    S.trans[rel.t1] = <<>> /\ ExpansionCondition(S.tax, rel)

\* C13: after run() returns, no relation left in the working set has a t1
\* that is not a translation source and categories that match the expansion
\* condition: of the working set at the exit of the pass loop exactly the
\* relations that match were removed, add_expansion(t1, [t2]) was applied
\* for each of them when it was visited, and a relation that does not match
\* (its t1 is a translation source, or its categories do not match) stays in
\* the set and adds no expansion.
C13_ExpansionsResolved ==
    /\ pc = "done" =>
          /\ \A r \in rel_set : ~Resolvable(Cur, r)
          /\ rel_set = {r \in new_set : ~Resolvable(Cur, r)}
          /\ acc = {r \in new_set : Resolvable(Cur, r)}
    /\ call.op = "expand" =>
          IF Resolvable(call.pre, call.rel)
          THEN /\ exp = add_expansion(call.pre, LastT1, <<LastT2>>).exp
               /\ call.rel \in acc
               /\ exp[LastT1] # <<>>
          ELSE /\ exp = call.pre.exp
               /\ call.rel \notin acc

\* run() returned: one relation was resolved as an expansion and another,
\* whose t1 is a translation source and whose categories match, was left
C13_Witness ==
    /\ pc = "done"
    /\ acc # {}
    /\ \E r \in rel_set : trans[r.t1] # <<>> /\ ExpansionCondition(tax, r)


\* the stores run() started with
Stores0 == Stores(hist.tax0, hist.trans0, hist.exp0)

\* the case of C14: the loaded working set is one relation, which is not
\* known, whose t1 is UNK and no translation source, whose t2 is CLASS or
\* BEH, and whose t2_given_t1_ratio (tinv_alias_num) is below t
C14_Case ==
    /\ Cardinality(hist.rels0) = 1
    /\ \A r \in hist.rels0 :
          /\ ~is_known_rel(Stores0, r)
          /\ get_category(hist.tax0, r.t1) = "UNK"
          /\ hist.trans0[r.t1] = <<>>
          /\ get_category(hist.tax0, r.t2) \in {"CLASS", "BEH"}
          /\ r.tinv_alias_num < DefaultT

CountsOf(R, t) ==
    {StrToInt(r.t1_num) : r \in {q \in R : q.t1 = t}}
        \cup {StrToInt(r.t2_num) : r \in {q \in R : q.t2 = t}}

\* the maximum of a non-empty set of numbers
MaxOf(N) == CHOOSE m \in N : \A n \in N : n <= m

\* C15: after loading, every token that occurs in a relation that was kept
\* has as its recorded count (src_map) the maximum of the counts given for
\* it over the kept relations, and a token that occurs in no kept relation
\* has no entry.
C15_SrcMapIsMax ==
    pc = "run" =>
        \A t \in Tags :
            IF CountsOf(rel_set, t) = {}
            THEN src_map[t] = NoCnt
            ELSE /\ src_map[t] # NoCnt
                 /\ StrToInt(src_map[t]) = MaxOf(CountsOf(rel_set, t))


\* the case of C16: process_relation called add_alias(t1, t2, prefix) for a
\* t1 that had translation destinations and a t2 that had none, and the call
\* returned
C16_Case ==
    /\ Processed
    /\ call.result = 1
    /\ call.pre.trans[LastT1] # <<>>
    /\ call.pre.trans[LastT2] = <<>>
    /\ \/ call.rel.tinv_alias_num >= DefaultT
       \/ get_category(call.pre.tax, LastT2) \in {"UNK", "FAM"}

\* the tags add_alias chooses among: dst and the destinations src had
C16_Candidates == {LastT2} \cup Range(call.pre.trans[LastT1])

\* the recorded count of a tag as a number (0 without an entry)
RecordedCount(t) == StrToInt(src_map[t])

\* C16: in this case the rule installed for src is [m] for a tag m with the
\* numerically greatest recorded count among dst and the destinations src
\* had, m is a taxonomy entry after the call, and src is not.
C16_MostFrequentTarget ==
    C16_Case =>
        \E m \in C16_Candidates :
            /\ \A e \in C16_Candidates : RecordedCount(e) <= RecordedCount(m)
            /\ trans[LastT1] = <<m>>
            /\ tax[m] # NoPath
            /\ tax[LastT1] = NoPath


\* C17: add_expansion(src, dst_l) writes one rule, under the source that the
\* translation resolves src to, and the rule written is a merge of dst_l
\* with the destinations that this resolved source had: it holds only tags
\* of the two lists, and a tag of either list is in it unless it overlaps
\* with a tag that is (so no destination the resolved source had is lost
\* except by overlap removal, also when src is an alias).
C17_MergeUnderResolvedSource ==
    call.op = "add_expansion" =>
        LET w == written_src(call.pre, call.src)
            merged == Range(call.pre.exp[w]) \cup Range(call.dst_l)
        IN  /\ \A t \in Tags \ {w} : exp[t] = call.pre.exp[t]
            /\ Range(exp[w]) \subseteq merged
            /\ \A d \in merged :
                  \/ d \in Range(exp[w])
                  \/ \E e \in Range(exp[w]) : e # d /\ overlaps(tax, d, e)


-----------------------------------------------------------------------------
(* Update.run as a function: the run that pops the relations in one fixed  *)
(* order, to compare every run with                                        *)

\* set.pop() with a fixed choice
pop(R) == CHOOSE rel \in R : TRUE

RECURSIVE run_pass(_, _, _, _, _, _)
\* run(): the inner `while self.rel_set`, from the stores S, the working set
\* R, the deferred set ns and the counter c
run_pass(S, R, ns, c, a, sm) ==
    IF R = {} THEN [S |-> S, new_set |-> ns, cnt |-> c, err |-> "none"]
    ELSE LET rel == pop(R)
             out == process_relation(S, rel, a, sm)
         IN  IF is_known_rel(S, rel)
             THEN run_pass(S, R \ {rel}, ns, c, a, sm)
             ELSE IF out.err # "none"
             THEN [S |-> S, new_set |-> ns, cnt |-> c, err |-> out.err]
             ELSE IF out.result # 0
             THEN run_pass(Stores(out.tax, out.trans, out.exp), R \ {rel},
                           ns, c + 1, a, sm)
             ELSE run_pass(Stores(out.tax, out.trans, out.exp), R \ {rel},
                           ns \cup {rel}, c, a, sm)

RECURSIVE run_loop(_, _, _, _)
\* run(): the outer `while self.rel_set`
run_loop(S, R, a, sm) ==
    IF R = {} THEN [S |-> S, rel_set |-> R, err |-> "none"]
    ELSE LET p == run_pass(S, R, {}, 0, a, sm)
         IN  IF p.err # "none" \/ p.cnt = 0
             THEN [S |-> p.S, rel_set |-> p.new_set, err |-> p.err]
             ELSE run_loop(p.S, p.new_set, a, sm)

RECURSIVE find_expansions(_, _)
\* Update.find_expansions: the stores after the relations of R were visited
find_expansions(S, R) ==
    IF R = {} THEN S
    ELSE LET rel == pop(R)
             out == add_expansion(S, rel.t1, <<rel.t2>>)
         IN  IF get_dst(S.trans, rel.t1) = <<>> /\ is_expansion_rel(S, rel)
             THEN find_expansions(Stores(out.tax, out.trans, out.exp),
                                  R \ {rel})
             ELSE find_expansions(S, R \ {rel})

\* Update.run: the stores when run() returns, or the exception it raises
run(S, R, a, sm) ==
    LET l == run_loop(S, R, a, sm)
    IN  IF l.err # "none" THEN [S |-> l.S, err |-> l.err]
        ELSE [S |-> find_expansions(l.S, l.rel_set), err |-> "none"]

\* the relations of the compared runs: a chain over the four tags, so that a
\* working set can hold two relations with a common tag, (a, b) and (b, c),
\* or two without one, (a, b) and (c, d)
OrderRels(cntOf) ==
    {Relation(p[1], p[2], cntOf[p[1]], cntOf[p[2]], <<2, 0>>, DefaultT, ti) :
        p \in {<<"a", "b">>, <<"b", "c">>, <<"c", "d">>}, ti \in Ratios}

OrderEmptyRules == [t \in OrderTags |-> <<>>]

\* the taxonomies of the compared runs: a and d unknown or families, b and
\* c unknown or top-level entries of FAM, CLASS or FILE
OrderTaxonomies ==
    {[t \in OrderTags |-> FlatPath(f[t], t)] :
        f \in {g \in [OrderTags -> {"UNK", "FAM", "CLASS", "FILE"}] :
                  g["a"] \in {"UNK", "FAM"} /\ g["d"] \in {"UNK", "FAM"}}}

\* their translation tables: no rule, or one rule whose source is no
\* taxonomy entry
OrderTranslations(tx) ==
    {OrderEmptyRules} \cup
    {[OrderEmptyRules EXCEPT ![r.s] = <<r.d>>] :
        r \in {q \in [s : OrderTags, d : OrderTags] :
                  q.s # q.d /\ tx[q.s] = NoPath}}

\* the state after Update.__init__ of the compared runs
InitOrder ==
    \E tx \in OrderTaxonomies :
    \E tr \in OrderTranslations(tx) :
    \E k \in Counts :
    \E a \in {Unbound, <<DefaultT>>} :
        LET dsts == UNION {Range(tr[t]) : t \in OrderTags}
            cntOf == [t \in OrderTags |-> IF t \in dsts THEN k ELSE <<5>>]
        IN  /\ (dsts = {} => k = <<5>>)
            /\ \E R \in SubsetsUpTo(OrderRels(cntOf), MaxRels) :
                /\ tax = tx
                /\ trans = tr
                /\ exp = OrderEmptyRules
                /\ src_map = [t \in OrderTags |->
                                 IF t \in RelTags(R) THEN cntOf[t] ELSE NoCnt]
                /\ rel_set = R
                /\ new_set = {}
                /\ cnt = 0
                /\ num_iter = 0
                /\ args = a
                /\ input = <<>>
                /\ acc = {}
                /\ todo = {}
                /\ pc = "run"
                /\ err = "none"
                /\ call = NoCall
                /\ hist = Hist0(tx, tr, OrderEmptyRules, R)

SpecOrder == InitOrder /\ [][Next]_vars

\* no two relations of R have a tag in common
NoSharedTag(R) ==
    \A r \in R : \A q \in R :
        r # q => {r.t1, r.t2} \cap {q.t1, q.t2} = {}

\* the outcome of the run in the fixed order from the state run() started in
FixedOrderRun == run(Stores0, hist.rels0, args, src_map)

\* C18: when no two relations of the loaded working set share a tag, the
\* stores with which run() returns are the same for every order of popping:
\* every run returns with the stores of the run in the fixed order.  (With a
\* shared tag there are runs that return with other stores: the witness.)
C18_SameStoresWithoutSharedTag ==
    (pc = "done" /\ NoSharedTag(hist.rels0))
        => FixedOrderRun.err = "none" /\ Cur = FixedOrderRun.S

\* run() returned with stores that differ from those of the run in the fixed
\* order, which returns too: two orders of popping, two results
C18_Witness ==
    /\ pc = "done"
    /\ FixedOrderRun.err = "none"
    /\ Cur # FixedOrderRun.S
    /\ (trans # FixedOrderRun.S.trans \/ tax # FixedOrderRun.S.tax)


-----------------------------------------------------------------------------
(* The translation rules as a graph *)

RECURSIVE ReachIn(_, _, _)
\* the tags reached from the tags of T by one to n + 1 translation steps
ReachIn(tr, T, n) ==
    LET next == UNION {Range(tr[t]) : t \in T}
    IN  IF n = 0 THEN next ELSE next \cup ReachIn(tr, next, n - 1)

\* the tags that t reaches by following translation rules
Reach(tr, t) == ReachIn(tr, {t}, Cardinality(DOMAIN tr))

Acyclic(tr) == \A t \in DOMAIN tr : t \notin Reach(tr, t)

\* C19: the translation rules, acyclic when run() starts, are acyclic after
\* every classification of run(): no tag reaches itself by following
\* translation rules (in particular no rule maps a tag to itself).
C19_TranslationAcyclic == Acyclic(hist.trans0) => Acyclic(trans)


-----------------------------------------------------------------------------
(* The working set of run() *)

\* C20: the working set only shrinks.  The pending relations (the working
\* set and the deferred set that is being built) are relations loaded at
\* construction, and relations of the pass that is running; each step of a
\* pass takes one relation out of the working set and classifies it, and a
\* pass ends when none is left, so each relation of the pass is classified
\* exactly once; a classified relation is deferred exactly when it was not
\* known and its result was 0; the next working set is the deferred set;
\* and a pass that ends with a non-zero counter ends with a proper subset of
\* the working set it started with.
C20_WorkingSetShrinks ==
    /\ (rel_set \cup new_set) \subseteq hist.rels0
    /\ hist.start \subseteq hist.rels0
    /\ pc \in {"pass", "error"} =>
          /\ rel_set \subseteq hist.start
          /\ new_set \subseteq (hist.start \ rel_set)
    /\ call.op = "classify" =>
          /\ call.rel \in call.prerels
          /\ call.prerels \subseteq hist.start
          /\ rel_set = call.prerels \ {call.rel}
          /\ call.rel \in new_set
                <=> (~call.known /\ err = "none" /\ call.result = 0)
          /\ cnt = call.precnt
                + (IF ~call.known /\ err = "none" /\ call.result # 0
                   THEN 1 ELSE 0)
    /\ call.op = "passend" =>
          /\ rel_set = new_set
          /\ rel_set \subseteq hist.start
          /\ Cardinality(hist.start) >= Cardinality(rel_set) + cnt
          /\ cnt # 0 => /\ rel_set # hist.start
                        /\ Cardinality(rel_set) < Cardinality(hist.start)
    /\ pc = "done" => rel_set \subseteq new_set

\* a pass with a non-zero counter ended with a smaller working set that is
\* not empty
C20_Witness ==
    /\ call.op = "passend"
    /\ cnt # 0
    /\ rel_set # {}
    /\ rel_set # hist.start

====
